---- MODULE Spec2Model ----
(***************************************************************************)
(* Model of SimpleConnectionPool (src/connection_pool_demo.py).            *)
(*                                                                         *)
(* Threads: the callers of get_connection / return_connection, the         *)
(* background cleanup thread started by __init__, and one thread that      *)
(* calls shutdown.  Each handler is cut into steps at the points where it  *)
(* touches the queue, a lock or the clock, so that the interleavings of    *)
(* the threads are the interleavings of those steps.                       *)
(*                                                                         *)
(* PooledConnection is a dataclass with unsafe_hash=True: its hash and its *)
(* equality are computed from its fields (socket, host, port, created_at,  *)
(* last_used, in_use).  A Python set files an element under the hash it    *)
(* had when it was added, and looks an element up under the hash it has    *)
(* now.  The sets all_connections and borrowed_connections are therefore   *)
(* modelled as sets of keys <<link, last_used, in_use>>: the link stands   *)
(* for the fields that never change (socket, host, port, created_at), the  *)
(* other two are the mutable fields as they were when the key was added.   *)
(*                                                                         *)
(* Sections run under borrowed_lock are single set operations by a thread  *)
(* that never blocks inside them; they are modelled as atomic steps.       *)
(* all_connections_lock is modelled explicitly (threading.Lock, not        *)
(* reentrant).                                                             *)
(***************************************************************************)
EXTENDS Integers, Naturals, Sequences, FiniteSets, TLC

\* ---------------------------------------------------------------- bounds
MaxLinks == 3        \* PooledConnection objects that can ever be created
MaxCapacity == 2     \* largest max_connections tried
MaxTTL == 0          \* largest connection_ttl tried by the general specification
MaxTime == 1         \* the clock of the general specification stops here
MaxTimeout == 1      \* largest timeout passed to get_connection
NumCallers == 2      \* caller threads of the general specification

\* ------------------------------------------------------------ identities
NoLink == 0          \* None
NoOwner == 0         \* all_connections_lock is free
ReaperT == 101       \* cleanup_thread
ShutdownT == 102     \* the thread calling shutdown
Links == 1..MaxLinks

VARIABLES
  max_connections,        \* self.max_connections
  connection_ttl,         \* self.connection_ttl
  script,                 \* the calls each caller makes, in order; <<>>: any
  reliable,               \* the endpoint never drops an open link
  now,                    \* time.time()
  available_connections,  \* queue.Queue of links (FIFO)
  all_connections,        \* set of keys
  borrowed_connections,   \* set of keys
  all_connections_lock,   \* owner of the lock, or NoOwner
  cleanup_running,        \* self.cleanup_running
  created,                \* number of PooledConnection objects created
  last_used,              \* link -> conn.last_used
  in_use,                 \* link -> conn.in_use
  sock_closed,            \* link -> socket.close() was called
  pc,                     \* thread -> position
  cur,                    \* thread -> local variable conn
  after,                  \* thread -> where _remove_connection returns to
  start_time,             \* caller -> local start_time
  timeout,                \* caller -> parameter timeout
  held,                   \* caller -> the link the caller holds
  via,                    \* caller -> path of get_connection that produced held
  ret,                    \* caller -> how the last call ended
  queue_size,             \* reaper local: iterations of the scan still to do
  expired_connections,    \* reaper local
  copy,                   \* shutdown local: all_connections.copy()
  condemned,              \* history: links get_connection found expired or dead
  released,               \* history: links return_connection accepted
  snap,                   \* history: caller -> pool at the start of its call
  ncalls                  \* history: caller -> calls started (scripted callers)

cfgvars == <<max_connections, connection_ttl, script, reliable>>
poolvars == <<available_connections, all_connections, borrowed_connections,
              all_connections_lock, cleanup_running, created>>
linkvars == <<last_used, in_use, sock_closed>>
callvars == <<start_time, timeout, held, via, ret>>
reapvars == <<queue_size, expired_connections>>
histvars == <<condemned, released, snap, ncalls>>
vars == <<cfgvars, now, poolvars, linkvars, pc, cur, after, callvars, reapvars, copy,
          histvars>>

Callers == DOMAIN held
Threads == DOMAIN pc

\* ------------------------------------------------- PooledConnection, sets
\* __hash__ / __eq__ generated by @dataclass(unsafe_hash=True): the key of a
\* link in a set is made of its fields
HashKey(c, lu, iu) == <<c, lu, iu>>
CurKey(c) == HashKey(c, last_used[c], in_use[c])

\* set.add, `in`, set.remove / set.discard: all go by the key
SetAdd(S, k) == S \cup {k}
\* (variant: the membership test is missing)
SetContainsAlways(S, k) == TRUE
SetContains(S, k) == k \in S
\* (variant: the element is not taken out)
SetDiscardNothing(S, k) == S
SetDiscard(S, k) == S \ {k}

\* the objects stored in a set, whatever key they are filed under
Members(S) == {k[1] : k \in S}

\* (variant: the TTL is never enforced)
IsExpiredNever(c, t) == FALSE
\* is_expired, at clock value t
IsExpired(c, t) == (t - last_used[c]) > connection_ttl

\* is_alive: getsockopt raises on a closed socket; on an open one SO_ERROR
\* is zero or not, as the peer decides
Probe(c) == IF sock_closed[c] THEN {FALSE} ELSE IF reliable THEN {TRUE} ELSE {TRUE, FALSE}

\* (variant: no mutual exclusion)
LockAvailableAlways(th) == TRUE
\* (variant: a reentrant lock, threading.RLock)
LockAvailableReentrant(th) == all_connections_lock \in {NoOwner, th}
\* threading.Lock.acquire returns only when nobody holds the lock
LockAvailable(th) == all_connections_lock = NoOwner

\* (variant: off by one)
HasCapacityOffByOne == Cardinality(all_connections) <= max_connections
\* len(self.all_connections) < self.max_connections
HasCapacity == Cardinality(all_connections) < max_connections

QueueMembers == {available_connections[i] : i \in 1..Len(available_connections)}

\* ----------------------------------------------------------------- driver
\* a scripted caller makes the calls of its script in order, once
MayCall(t, op) ==
  script = <<>> \/ (ncalls[t] < Len(script) /\ script[ncalls[t] + 1] = op)
Count(t) ==
  ncalls' = IF script = <<>> THEN ncalls ELSE [ncalls EXCEPT ![t] = @ + 1]

NoSnap == <<>>
PoolSnap == <<all_connections, borrowed_connections, available_connections, created>>
Saturated == Cardinality(Members(borrowed_connections)) = max_connections

\* ------------------------------------------------------------------ Init
\* the pool after __init__, n callers, the cleanup thread asleep
InitWith(n, caps, ttls, scr, rel) ==
  /\ max_connections \in caps
  /\ connection_ttl \in ttls
  /\ script = scr
  /\ reliable = rel
  /\ now = 0
  /\ available_connections = <<>>
  /\ all_connections = {}
  /\ borrowed_connections = {}
  /\ all_connections_lock = NoOwner
  /\ cleanup_running = TRUE
  /\ created = 0
  /\ last_used = [c \in Links |-> 0]
  /\ in_use = [c \in Links |-> FALSE]
  /\ sock_closed = [c \in Links |-> FALSE]
  /\ pc = [th \in (1..n) \cup {ReaperT, ShutdownT} |->
             IF th = ReaperT THEN "sleep" ELSE IF th = ShutdownT THEN "ready" ELSE "idle"]
  /\ cur = [th \in (1..n) \cup {ReaperT, ShutdownT} |-> NoLink]
  /\ after = [th \in (1..n) \cup {ReaperT, ShutdownT} |-> "idle"]
  /\ start_time = [t \in 1..n |-> 0]
  /\ timeout = [t \in 1..n |-> 0]
  /\ held = [t \in 1..n |-> NoLink]
  /\ via = [t \in 1..n |-> "none"]
  /\ ret = [t \in 1..n |-> "ok"]
  /\ queue_size = 0
  /\ expired_connections = <<>>
  /\ copy = {}
  /\ condemned = {}
  /\ released = {}
  /\ snap = [t \in 1..n |-> NoSnap]
  /\ ncalls = [t \in 1..n |-> 0]

Init == InitWith(NumCallers, 1..MaxCapacity, 0..MaxTTL, <<>>, FALSE)

\* --------------------------------------------------------- get_connection
\* get_connection returns r ("ok": a link, "None"); its locals are gone
Return(t, r) ==
  /\ ret' = [ret EXCEPT ![t] = r]
  /\ start_time' = [start_time EXCEPT ![t] = 0]
  /\ timeout' = [timeout EXCEPT ![t] = 0]

\* (variant: after the creation path the call gives up without waiting)
GiveUpAlways(t) ==
  /\ Return(t, "None")
  /\ pc' = [pc EXCEPT ![t] = "idle"]
\* lines 197-203: remaining_timeout = timeout - (time.time() - start_time);
\* return None when it is used up, else enter the blocking get
WaitOrGiveUp(t) ==
  IF timeout[t] - (now - start_time[t]) <= 0
    THEN /\ Return(t, "None")
         /\ pc' = [pc EXCEPT ![t] = "idle"]
    ELSE /\ pc' = [pc EXCEPT ![t] = "block"]
         /\ UNCHANGED <<ret, start_time, timeout>>

\* lines 151-156: the call starts, start_time = time.time()
StartAcquire(t, to) ==
  /\ pc[t] = "idle"
  /\ held[t] = NoLink
  /\ MayCall(t, "acquire")
  /\ Count(t)
  /\ pc' = [pc EXCEPT ![t] = "drain"]
  /\ start_time' = [start_time EXCEPT ![t] = now]
  /\ timeout' = [timeout EXCEPT ![t] = to]
  /\ ret' = [ret EXCEPT ![t] = "ok"]
  /\ snap' = [snap EXCEPT ![t] = IF Saturated THEN PoolSnap ELSE NoSnap]
  /\ UNCHANGED <<cfgvars, now, poolvars, linkvars, cur, after, held, via, reapvars,
                 copy, condemned, released>>

\* lines 162-164, 180-181: the loop test and get_nowait
DrainPop(t) ==
  /\ pc[t] = "drain"
  /\ IF now - start_time[t] < timeout[t] /\ available_connections # <<>>
       THEN /\ cur' = [cur EXCEPT ![t] = Head(available_connections)]
            /\ available_connections' = Tail(available_connections)
            /\ pc' = [pc EXCEPT ![t] = "validate"]
       ELSE /\ pc' = [pc EXCEPT ![t] = "create"]
            /\ UNCHANGED <<cur, available_connections>>
  /\ UNCHANGED <<cfgvars, now, all_connections, borrowed_connections,
                 all_connections_lock, cleanup_running, created, linkvars, after,
                 callvars, reapvars, copy, histvars>>

\* lines 165-179: the popped link is validated in the drain loop
Validate(t) ==
  /\ pc[t] = "validate"
  /\ \E alive \in Probe(cur[t]) :
     LET c == cur[t] IN
     IF IsExpired(c, now) \/ ~alive
       THEN \* _remove_connection: conn.close(), then wait for the lock
            /\ sock_closed' = [sock_closed EXCEPT ![c] = TRUE]
            /\ condemned' = condemned \cup {c}
            /\ pc' = [pc EXCEPT ![t] = "remove"]
            /\ after' = [after EXCEPT ![t] = "drain"]
            /\ UNCHANGED <<in_use, last_used, borrowed_connections, callvars, cur>>
       ELSE /\ in_use' = [in_use EXCEPT ![c] = TRUE]
            /\ last_used' = [last_used EXCEPT ![c] = now]
            /\ borrowed_connections' = SetAdd(borrowed_connections, HashKey(c, now, TRUE))
            /\ held' = [held EXCEPT ![t] = c]
            /\ via' = [via EXCEPT ![t] = "reused"]
            /\ Return(t, "ok")
            /\ cur' = [cur EXCEPT ![t] = NoLink]
            /\ pc' = [pc EXCEPT ![t] = "idle"]
            /\ UNCHANGED <<sock_closed, condemned, after>>
  /\ UNCHANGED <<cfgvars, now, available_connections, all_connections,
                 all_connections_lock, cleanup_running, created, reapvars, copy,
                 released, snap, ncalls>>

\* lines 184-185: take all_connections_lock and test the capacity; with no
\* capacity left the lock is released and lines 197-203 follow
CreateCheck(t) ==
  /\ pc[t] = "create"
  /\ LockAvailable(t)
  /\ IF HasCapacity
       THEN /\ all_connections_lock' = t
            /\ pc' = [pc EXCEPT ![t] = "connect"]
            /\ UNCHANGED <<ret, start_time, timeout>>
       ELSE /\ WaitOrGiveUp(t)
            /\ UNCHANGED all_connections_lock
  /\ UNCHANGED <<cfgvars, now, available_connections, all_connections,
                 borrowed_connections, cleanup_running, created, linkvars, cur, after,
                 held, via, reapvars, copy, histvars>>

\* lines 186-193, 242-256: the connect succeeds
ConnectOk(t) ==
  /\ pc[t] = "connect"
  /\ created < MaxLinks
  /\ LET c == created + 1 IN
       /\ created' = c
       /\ last_used' = [last_used EXCEPT ![c] = now]
       /\ in_use' = [in_use EXCEPT ![c] = TRUE]
       /\ all_connections' = SetAdd(all_connections, HashKey(c, now, TRUE))
       /\ borrowed_connections' = SetAdd(borrowed_connections, HashKey(c, now, TRUE))
       /\ held' = [held EXCEPT ![t] = c]
  /\ via' = [via EXCEPT ![t] = "created"]
  /\ Return(t, "ok")
  /\ all_connections_lock' = NoOwner
  /\ pc' = [pc EXCEPT ![t] = "idle"]
  /\ UNCHANGED <<cfgvars, now, available_connections, cleanup_running, sock_closed,
                 cur, after, reapvars, copy, histvars>>

\* lines 257-259, 187: the connect fails, conn is None; the lock is released
\* and lines 197-203 follow
ConnectFail(t) ==
  /\ pc[t] = "connect"
  /\ all_connections_lock' = NoOwner
  /\ WaitOrGiveUp(t)
  /\ UNCHANGED <<cfgvars, now, available_connections, all_connections,
                 borrowed_connections, cleanup_running, created, linkvars, cur, after,
                 held, via, reapvars, copy, histvars>>

\* line 203: the blocking get returns an item
BlockGet(t) ==
  /\ pc[t] = "block"
  /\ available_connections # <<>>
  /\ cur' = [cur EXCEPT ![t] = Head(available_connections)]
  /\ available_connections' = Tail(available_connections)
  /\ pc' = [pc EXCEPT ![t] = "validate_b"]
  /\ UNCHANGED <<cfgvars, now, all_connections, borrowed_connections,
                 all_connections_lock, cleanup_running, created, linkvars, after,
                 callvars, reapvars, copy, histvars>>

\* lines 203, 217-219: the blocking get raises queue.Empty at the deadline
BlockTimeout(t) ==
  /\ pc[t] = "block"
  /\ available_connections = <<>>
  /\ now - start_time[t] >= timeout[t]
  /\ Return(t, "None")
  /\ pc' = [pc EXCEPT ![t] = "idle"]
  /\ UNCHANGED <<cfgvars, now, poolvars, linkvars, cur, after, held, via, reapvars,
                 copy, histvars>>

\* lines 204-216: validation after the blocking get; the link is added to
\* borrowed_connections BEFORE in_use and last_used are assigned
ValidateB(t) ==
  /\ pc[t] = "validate_b"
  /\ \E alive \in Probe(cur[t]) :
     LET c == cur[t] IN
     IF IsExpired(c, now) \/ ~alive
       THEN /\ sock_closed' = [sock_closed EXCEPT ![c] = TRUE]
            /\ condemned' = condemned \cup {c}
            /\ Return(t, "None")
            /\ pc' = [pc EXCEPT ![t] = "remove"]
            /\ after' = [after EXCEPT ![t] = "idle"]
            /\ UNCHANGED <<in_use, last_used, borrowed_connections, held, via, cur>>
       ELSE /\ borrowed_connections' = SetAdd(borrowed_connections, CurKey(c))
            /\ in_use' = [in_use EXCEPT ![c] = TRUE]
            /\ last_used' = [last_used EXCEPT ![c] = now]
            /\ held' = [held EXCEPT ![t] = c]
            /\ via' = [via EXCEPT ![t] = "waited"]
            /\ Return(t, "ok")
            /\ cur' = [cur EXCEPT ![t] = NoLink]
            /\ pc' = [pc EXCEPT ![t] = "idle"]
            /\ UNCHANGED <<sock_closed, condemned, after>>
  /\ UNCHANGED <<cfgvars, now, available_connections, all_connections,
                 all_connections_lock, cleanup_running, created, reapvars, copy,
                 released, snap, ncalls>>

\* ------------------------------------------------------ return_connection
\* lines 225-231: the membership test and the removal under borrowed_lock,
\* then the two field updates
ReleaseCheck(t, c) ==
  /\ pc[t] = "idle"
  /\ MayCall(t, "release")
  /\ Count(t)
  /\ IF SetContains(borrowed_connections, CurKey(c))
       THEN /\ borrowed_connections' = SetDiscard(borrowed_connections, CurKey(c))
            /\ in_use' = [in_use EXCEPT ![c] = FALSE]
            /\ last_used' = [last_used EXCEPT ![c] = now]
            /\ cur' = [cur EXCEPT ![t] = c]
            /\ held' = [held EXCEPT ![t] = IF held[t] = c THEN NoLink ELSE held[t]]
            /\ via' = [via EXCEPT ![t] = IF held[t] = c THEN "none" ELSE via[t]]
            /\ ret' = [ret EXCEPT ![t] = "ok"]
            /\ released' = released \cup {c}
            /\ snap' = [u \in Callers |-> NoSnap]
            /\ pc' = [pc EXCEPT ![t] = "returning"]
       ELSE /\ ret' = [ret EXCEPT ![t] = "ValueError"]
            /\ snap' = [snap EXCEPT ![t] = NoSnap]
            /\ UNCHANGED <<borrowed_connections, in_use, last_used, cur, held, via,
                           released, pc>>
  /\ UNCHANGED <<cfgvars, now, available_connections, all_connections,
                 all_connections_lock, cleanup_running, created, sock_closed, after,
                 start_time, timeout, reapvars, copy, condemned>>

\* lines 233-240: an expired or dead link is removed, another one is queued
ReturnValidate(t) ==
  /\ pc[t] = "returning"
  /\ \E alive \in Probe(cur[t]) :
     LET c == cur[t] IN
     IF IsExpired(c, now) \/ ~alive
       THEN /\ sock_closed' = [sock_closed EXCEPT ![c] = TRUE]
            /\ pc' = [pc EXCEPT ![t] = "remove"]
            /\ after' = [after EXCEPT ![t] = "idle"]
            /\ UNCHANGED <<available_connections, cur>>
       ELSE /\ available_connections' = Append(available_connections, c)
            /\ cur' = [cur EXCEPT ![t] = NoLink]
            /\ pc' = [pc EXCEPT ![t] = "idle"]
            /\ UNCHANGED <<sock_closed, after>>
  /\ UNCHANGED <<cfgvars, now, all_connections, borrowed_connections,
                 all_connections_lock, cleanup_running, created, last_used, in_use,
                 callvars, reapvars, copy, histvars>>

\* ------------------------------------------------------ _remove_connection
\* lines 264-265: the socket is closed already (line 263, in the step that
\* called); take the lock, discard, release the lock, return to the caller
Remove(th) ==
  /\ pc[th] = "remove"
  /\ LockAvailable(th)
  /\ all_connections' = SetDiscard(all_connections, CurKey(cur[th]))
  /\ cur' = [cur EXCEPT ![th] = NoLink]
  /\ pc' = [pc EXCEPT ![th] = after[th]]
  /\ UNCHANGED <<cfgvars, now, available_connections, borrowed_connections,
                 all_connections_lock, cleanup_running, created, linkvars, after,
                 callvars, reapvars, copy, histvars>>

\* ------------------------------------------- _cleanup_expired_connections
\* lines 271-275: time.sleep(30) is over (the model leaves open when),
\* queue_size = qsize(), expired_connections = []
ReaperWake ==
  /\ pc[ReaperT] = "sleep"
  /\ queue_size' = Len(available_connections)
  /\ expired_connections' = <<>>
  /\ pc' = [pc EXCEPT ![ReaperT] = "scan"]
  /\ UNCHANGED <<cfgvars, now, poolvars, linkvars, cur, after, callvars, copy,
                 histvars>>

\* lines 278-280, 286-287: one iteration of the for loop, get_nowait
ReaperScan ==
  /\ pc[ReaperT] = "scan"
  /\ IF queue_size > 0 /\ available_connections # <<>>
       THEN /\ cur' = [cur EXCEPT ![ReaperT] = Head(available_connections)]
            /\ available_connections' = Tail(available_connections)
            /\ queue_size' = queue_size - 1
            /\ pc' = [pc EXCEPT ![ReaperT] = "scan_check"]
       ELSE /\ queue_size' = 0
            /\ pc' = [pc EXCEPT ![ReaperT] = "purge"]
            /\ UNCHANGED <<cur, available_connections>>
  /\ UNCHANGED <<cfgvars, now, all_connections, borrowed_connections,
                 all_connections_lock, cleanup_running, created, linkvars, after,
                 callvars, expired_connections, copy, histvars>>

\* lines 281-285: the expired link is kept aside, another one is put back
ReaperCheck ==
  /\ pc[ReaperT] = "scan_check"
  /\ LET c == cur[ReaperT] IN
     IF IsExpired(c, now)
       THEN /\ expired_connections' = Append(expired_connections, c)
            /\ UNCHANGED available_connections
       ELSE /\ available_connections' = Append(available_connections, c)
            /\ UNCHANGED expired_connections
  /\ cur' = [cur EXCEPT ![ReaperT] = NoLink]
  /\ pc' = [pc EXCEPT ![ReaperT] = "scan"]
  /\ UNCHANGED <<cfgvars, now, all_connections, borrowed_connections,
                 all_connections_lock, cleanup_running, created, linkvars, after,
                 callvars, queue_size, copy, histvars>>

\* lines 290-292: the next expired link: conn.close(), then
\* _remove_connection waits for the lock; after the last one, line 269 tests
\* cleanup_running and the thread sleeps again or ends
ReaperPurge ==
  /\ pc[ReaperT] = "purge"
  /\ IF expired_connections = <<>>
       THEN /\ pc' = [pc EXCEPT ![ReaperT] = IF cleanup_running THEN "sleep" ELSE "exit"]
            /\ UNCHANGED <<expired_connections, cur, after, sock_closed>>
       ELSE /\ cur' = [cur EXCEPT ![ReaperT] = Head(expired_connections)]
            /\ expired_connections' = Tail(expired_connections)
            /\ sock_closed' = [sock_closed EXCEPT ![Head(expired_connections)] = TRUE]
            /\ after' = [after EXCEPT ![ReaperT] = "purge"]
            /\ pc' = [pc EXCEPT ![ReaperT] = "remove"]
  /\ UNCHANGED <<cfgvars, now, poolvars, last_used, in_use, callvars, queue_size, copy,
                 histvars>>

\* ---------------------------------------------------------------- shutdown
\* lines 299-300
ShutdownStart ==
  /\ pc[ShutdownT] = "ready"
  /\ cleanup_running' = FALSE
  /\ pc' = [pc EXCEPT ![ShutdownT] = "sd_lock"]
  /\ UNCHANGED <<cfgvars, now, available_connections, all_connections,
                 borrowed_connections, all_connections_lock, created, linkvars, cur,
                 after, callvars, reapvars, copy, histvars>>

\* lines 303-304: take the lock, copy the set
ShutdownLock ==
  /\ pc[ShutdownT] = "sd_lock"
  /\ LockAvailable(ShutdownT)
  /\ all_connections_lock' = ShutdownT
  /\ copy' = Members(all_connections)
  /\ pc' = [pc EXCEPT ![ShutdownT] = "sd_iter"]
  /\ UNCHANGED <<cfgvars, now, available_connections, all_connections,
                 borrowed_connections, cleanup_running, created, linkvars, cur, after,
                 callvars, reapvars, histvars>>

\* lines 304-305: the next link of the copy (a set: in any order):
\* conn.close(), then _remove_connection waits for the lock, which this
\* thread holds; when the copy is used up the lock is released and shutdown
\* returns
ShutdownIter ==
  /\ pc[ShutdownT] = "sd_iter"
  /\ IF copy = {}
       THEN /\ all_connections_lock' = NoOwner
            /\ pc' = [pc EXCEPT ![ShutdownT] = "ready"]
            /\ UNCHANGED <<copy, cur, after, sock_closed>>
       ELSE \E c \in copy :
            /\ copy' = copy \ {c}
            /\ cur' = [cur EXCEPT ![ShutdownT] = c]
            /\ sock_closed' = [sock_closed EXCEPT ![c] = TRUE]
            /\ after' = [after EXCEPT ![ShutdownT] = "sd_iter"]
            /\ pc' = [pc EXCEPT ![ShutdownT] = "remove"]
            /\ UNCHANGED all_connections_lock
  /\ UNCHANGED <<cfgvars, now, available_connections, all_connections,
                 borrowed_connections, cleanup_running, created, last_used, in_use,
                 callvars, reapvars, histvars>>

\* ------------------------------------------------------------- environment
\* time passes, up to the horizon
Tick(horizon) ==
  /\ now < horizon
  /\ now' = now + 1
  /\ UNCHANGED <<cfgvars, poolvars, linkvars, pc, cur, after, callvars, reapvars, copy,
                 histvars>>

\* the links a caller may pass to return_connection: its own link, or a
\* link that no caller holds (released already, or never handed out)
Releasable(t) ==
  {c \in Links : c = held[t] \/ (\A u \in Callers : held[u] # c)}

Next ==
  \/ \E t \in Callers, to \in 0..MaxTimeout : StartAcquire(t, to)
  \/ \E t \in Callers : DrainPop(t)
  \/ \E t \in Callers : Validate(t)
  \/ \E t \in Callers : CreateCheck(t)
  \/ \E t \in Callers : ConnectOk(t)
  \/ \E t \in Callers : ConnectFail(t)
  \/ \E t \in Callers : BlockGet(t)
  \/ \E t \in Callers : BlockTimeout(t)
  \/ \E t \in Callers : ValidateB(t)
  \/ \E t \in Callers : \E c \in Releasable(t) : ReleaseCheck(t, c)
  \/ \E t \in Callers : ReturnValidate(t)
  \/ \E th \in Threads : Remove(th)
  \/ ReaperWake
  \/ ReaperScan
  \/ ReaperCheck
  \/ ReaperPurge
  \/ ShutdownStart
  \/ ShutdownLock
  \/ ShutdownIter
  \/ Tick(MaxTime)

Spec == Init /\ [][Next]_vars

\* ---------------------------------------------------------------- fairness
\* the scheduler lets every thread run: a step that stays possible is taken;
\* a thread waiting for all_connections_lock gets it if the lock is free
\* again and again.  Starting a call and the passing of time are left open.
Fairness ==
  /\ \A t \in 1..NumCallers :
       /\ WF_vars(DrainPop(t) \/ Validate(t) \/ ConnectOk(t) \/ ConnectFail(t)
                    \/ BlockGet(t) \/ BlockTimeout(t) \/ ValidateB(t)
                    \/ ReturnValidate(t))
       /\ SF_vars(CreateCheck(t))
       /\ SF_vars(Remove(t))
  /\ WF_vars(ReaperScan \/ ReaperCheck \/ ReaperPurge)
  /\ SF_vars(Remove(ReaperT))
  /\ SF_vars(ShutdownLock)
  /\ WF_vars(ShutdownIter)
  /\ SF_vars(Remove(ShutdownT))
\* the pool with max_connections = 1 under that scheduler
InitFair == InitWith(NumCallers, {1}, 0..MaxTTL, <<>>, FALSE)
FairSpec == InitFair /\ [][Next]_vars /\ Fairness

\* --------------------------------------------------------------- scenarios
\* a scripted caller lets d time units pass between two calls (time.sleep)
Sleep(t, d) ==
  /\ pc[t] = "idle"
  /\ MayCall(t, "sleep")
  /\ Count(t)
  /\ now' = now + d
  /\ UNCHANGED <<cfgvars, poolvars, linkvars, pc, cur, after, callvars, reapvars, copy,
                 condemned, released, snap>>

\* time passes while a caller waits in the blocking get
TickBlocked(horizon) ==
  /\ \E t \in Callers : pc[t] = "block"
  /\ Tick(horizon)

\* Expiry scenario: one caller, connection_ttl = 1, a healthy endpoint:
\* get_connection, return_connection, at least 2 time units pass,
\* get_connection (the TTL test of main, lines 412-427)
ExpiryScript == <<"acquire", "release", "sleep", "acquire">>
InitExpiry == InitWith(1, 1..MaxLinks, {1}, ExpiryScript, TRUE)
NextExpiry ==
  \/ \E t \in Callers, to \in 1..(MaxTimeout + 1) : StartAcquire(t, to)
  \/ \E t \in Callers : DrainPop(t)
  \/ \E t \in Callers : Validate(t)
  \/ \E t \in Callers : CreateCheck(t)
  \/ \E t \in Callers : ConnectOk(t)
  \/ \E t \in Callers : BlockTimeout(t)
  \/ \E t \in Callers : held[t] # NoLink /\ ReleaseCheck(t, held[t])
  \/ \E t \in Callers : ReturnValidate(t)
  \/ \E t \in Callers : Remove(t)
  \/ \E t \in Callers, d \in 2..3 : Sleep(t, d)
  \/ TickBlocked(4 + MaxTimeout)
SpecExpiry == InitExpiry /\ [][NextExpiry]_vars

\* Saturation scenario: max_connections = 2, three callers that each call
\* get_connection with a positive timeout and then return_connection, a
\* healthy endpoint, the cleanup thread running
SatScript == <<"acquire", "release">>
InitSat == InitWith(3, {2}, 0..MaxTTL, SatScript, TRUE)
NextSat ==
  \/ \E t \in Callers, to \in 1..MaxTimeout : StartAcquire(t, to)
  \/ \E t \in Callers : DrainPop(t)
  \/ \E t \in Callers : Validate(t)
  \/ \E t \in Callers : CreateCheck(t)
  \/ \E t \in Callers : ConnectOk(t)
  \/ \E t \in Callers : BlockGet(t)
  \/ \E t \in Callers : BlockTimeout(t)
  \/ \E t \in Callers : ValidateB(t)
  \/ \E t \in Callers : held[t] # NoLink /\ ReleaseCheck(t, held[t])
  \/ \E t \in Callers : ReturnValidate(t)
  \/ \E th \in Threads : Remove(th)
  \/ ReaperWake
  \/ ReaperScan
  \/ ReaperCheck
  \/ ReaperPurge
  \/ Tick(MaxTime)
SpecSat == InitSat /\ [][NextSat]_vars

\* Reuse scenario: max_connections = 1, one caller, a healthy endpoint, a
\* connection_ttl that the clock never exceeds, the cleanup thread running:
\* get_connection, return_connection, get_connection
ReuseScript == <<"acquire", "release", "acquire">>
InitReuse == InitWith(1, {1}, {MaxTime + 1}, ReuseScript, TRUE)
NextReuse ==
  \/ \E t \in Callers, to \in 0..MaxTimeout : StartAcquire(t, to)
  \/ \E t \in Callers : DrainPop(t)
  \/ \E t \in Callers : Validate(t)
  \/ \E t \in Callers : CreateCheck(t)
  \/ \E t \in Callers : ConnectOk(t)
  \/ \E t \in Callers : BlockGet(t)
  \/ \E t \in Callers : BlockTimeout(t)
  \/ \E t \in Callers : ValidateB(t)
  \/ \E t \in Callers : held[t] # NoLink /\ ReleaseCheck(t, held[t])
  \/ \E t \in Callers : ReturnValidate(t)
  \/ ReaperWake
  \/ ReaperScan
  \/ ReaperCheck
  \/ ReaperPurge
  \/ Tick(MaxTime)
SpecReuse == InitReuse /\ [][NextReuse]_vars

\* =================================================================== claims

\* C1 (capacity): in every reachable state the number of links recorded in
\* all_connections is at most max_connections.
CapacityInv ==
  /\ Cardinality(all_connections) <= max_connections
  /\ Cardinality(Members(all_connections)) <= max_connections

\* two callers found the queue empty with one slot left: one is connecting
\* under the lock, the other waits for the lock
CapacityWitness ==
  \E t, u \in Callers :
    /\ t # u
    /\ pc[t] = "connect"
    /\ pc[u] = "create"
    /\ Cardinality(all_connections) + 1 = max_connections

\* C2 (exclusivity): in every reachable state no link is both in the idle
\* queue and in borrowed_connections.
ExclusivityInv == QueueMembers \cap Members(borrowed_connections) = {}

\* a released link is idle while another link is borrowed and the cleanup
\* thread is at work
ExclusivityWitness ==
  /\ QueueMembers \cap released # {}
  /\ borrowed_connections # {}
  /\ pc[ReaperT] = "scan"

\* C3 (exclusive ownership): while a caller holds a link that get_connection
\* returned to it, no other caller holds that link, the link is not in the
\* idle queue, no get_connection has popped it and the cleanup thread has
\* not popped it.
RangeOf(q) == {q[i] : i \in 1..Len(q)}
OwnershipInv ==
  \A t \in Callers :
    held[t] # NoLink =>
      /\ \A u \in Callers \ {t} : held[u] # held[t] /\ cur[u] # held[t]
      /\ held[t] \notin QueueMembers
      /\ cur[ReaperT] # held[t]
      /\ held[t] \notin RangeOf(expired_connections)

\* a caller holds a link that went through the idle queue, while another
\* caller is in the blocking get
OwnershipWitness ==
  \E t, u \in Callers :
    /\ t # u
    /\ held[t] # NoLink
    /\ via[t] \in {"reused", "waited"}
    /\ pc[u] = "block"

\* C4 (containment): in every reachable state every link in the idle queue
\* or in borrowed_connections is stored in all_connections.
ContainmentInv ==
  (QueueMembers \cup Members(borrowed_connections)) \subseteq Members(all_connections)

\* shutdown has closed a link and is inside _remove_connection, while a link
\* is idle and a link is borrowed
ContainmentWitness ==
  /\ pc[ShutdownT] = "remove"
  /\ available_connections # <<>>
  /\ borrowed_connections # {}

\* C5 (no reuse of expired or dead links): a link that get_connection hands
\* out from the idle queue was, in the step that validated it, within its
\* TTL and open; a link that get_connection found expired or dead has its
\* socket closed, is held by no caller and is not in the idle queue.
HandedOutFromQueue(t) ==
  /\ pc[t] \in {"validate", "validate_b"}
  /\ pc'[t] = "idle"
  /\ held'[t] = cur[t]
NoStaleReuse ==
  /\ [][\A t \in Callers :
          HandedOutFromQueue(t) =>
            /\ now - last_used[cur[t]] <= connection_ttl
            /\ ~sock_closed[cur[t]]]_vars
  /\ [](\A c \in condemned :
          /\ sock_closed[c]
          /\ c \notin QueueMembers
          /\ \A t \in Callers : held[t] # c)

\* get_connection has found one link expired or dead and destroyed it, and
\* a caller holds another link that came out of the idle queue
NoStaleReuseWitness ==
  /\ condemned # {}
  /\ \E t \in Callers : held[t] # NoLink /\ via[t] \in {"reused", "waited"}

\* C6 (misuse of release): return_connection called with a link that is not
\* stored in borrowed_connections raises ValueError and leaves the idle
\* queue, borrowed_connections and all_connections as they were.
MisuseSurfaced ==
  [][\A t \in Callers : \A c \in Links :
       (ReleaseCheck(t, c) /\ c \notin Members(borrowed_connections)) =>
         /\ ret'[t] = "ValueError"
         /\ UNCHANGED <<available_connections, borrowed_connections, all_connections>>]_vars

\* a caller that holds nothing got ValueError while a released link sits in
\* the idle queue
MisuseWitness ==
  \E t \in Callers :
    /\ ret[t] = "ValueError"
    /\ held[t] = NoLink
    /\ QueueMembers \cap released # {}

\* C7 (release of a borrowed link succeeds): when a caller passes the link
\* it holds to return_connection, the call does not raise ValueError, the
\* link leaves borrowed_connections and its in_use becomes false.
ReleaseOfHeldSucceeds ==
  [][\A t \in Callers :
       (held[t] # NoLink /\ ReleaseCheck(t, held[t])) =>
         /\ ret'[t] # "ValueError"
         /\ held[t] \notin Members(borrowed_connections')
         /\ ~in_use'[held[t]]]_vars

\* C10 (timeout): a get_connection call that starts when max_connections
\* links are borrowed, and during which no link is released, returns None
\* and leaves all_connections, borrowed_connections, the idle queue and the
\* number of links created as they were when it started.
TimeoutFrame ==
  \A t \in Callers :
    (pc[t] = "idle" /\ snap[t] # NoSnap) =>
      /\ ret[t] = "None"
      /\ held[t] = NoLink
      /\ PoolSnap = snap[t]

\* such a call has returned None
TimeoutWitness ==
  \E t \in Callers :
    /\ pc[t] = "idle"
    /\ snap[t] # NoSnap
    /\ ret[t] = "None"
    /\ Saturated

\* C8 (expiry): with connection_ttl = 1, after get_connection,
\* return_connection, at least 2 time units and a second get_connection,
\* the caller holds a link other than the first one and the socket of the
\* first link (link 1) is closed, whatever max_connections is.
ExpiryScenarioDone(t) == pc[t] = "idle" /\ ncalls[t] = Len(ExpiryScript)
ExpiryReplacesLink ==
  \A t \in Callers :
    ExpiryScenarioDone(t) =>
      /\ held[t] \notin {NoLink, 1}
      /\ sock_closed[1]

\* C9 (saturation): with max_connections = 2 and three callers, never more
\* than two links exist; as long as nothing was released, once all three
\* calls are past the capacity test exactly two callers hold links, which
\* they created and which differ, and the third holds none; a caller that
\* holds a link it did not create holds one of the two links, which was
\* released before, and no other caller holds it.
Holders == {t \in Callers : held[t] # NoLink}
SaturationInv ==
  /\ created <= 2
  /\ Cardinality(all_connections) <= 2
  /\ (released = {} /\ \A t \in Callers : ncalls[t] >= 1 /\ pc[t] \in {"idle", "block"}) =>
       /\ Cardinality(Holders) = 2
       /\ \A t \in Holders : via[t] = "created"
       /\ \A t, u \in Holders : t # u => held[t] # held[u]
  /\ \A t \in Holders :
       via[t] # "created" =>
         /\ held[t] \in released
         /\ held[t] \in 1..2
         /\ \A u \in Callers \ {t} : held[u] # held[t]

\* two callers created the two links, one of them released its link, and
\* the third caller came out of the blocking get with that link
SaturationWitness ==
  \E t \in Holders :
    /\ via[t] = "waited"
    /\ created = 2
    /\ \E u \in Holders \ {t} : via[u] = "created"
\* C11 (shutdown reclaims everything): a shutdown that was called returns,
\* and when it returns all_connections is empty and every link that was
\* created has its socket closed.
ShutdownReclaims ==
  (pc[ShutdownT] # "ready") ~>
     (/\ pc[ShutdownT] = "ready"
      /\ all_connections = {}
      /\ \A c \in 1..created : sock_closed[c])
\* C12 (shutdown stops the reaper): once shutdown has been called while the
\* cleanup thread sleeps between two cycles, the cleanup thread pops no link
\* from the idle queue and destroys no link any more.
ReaperStops ==
  []((~cleanup_running /\ pc[ReaperT] = "sleep") =>
       [](pc[ReaperT] \notin {"scan_check", "remove"}))
\* C13 (acquire after shutdown): once shutdown has been called and no caller
\* is inside a call or holds a link, every later get_connection returns
\* None: no caller holds a link again and no link is created.
NoAcquireAfterShutdown ==
  [](\A n \in 0..MaxLinks :
       (/\ ~cleanup_running
        /\ created = n
        /\ \A t \in Callers : pc[t] = "idle" /\ held[t] = NoLink) =>
          [](created = n /\ \A t \in Callers : held[t] = NoLink))
\* C14 (acquire is bounded): a get_connection call that waits for
\* all_connections_lock, at the capacity test or to remove a link it found
\* expired or dead, gets past that wait.
AcquireNeverStuckOnLock ==
  \A t \in 1..NumCallers :
    /\ (pc[t] = "create") ~> (pc[t] # "create")
    /\ (pc[t] = "remove" /\ after[t] = "drain") ~> (pc[t] # "remove")
\* C15 (release never blocks): every return_connection call that was
\* accepted completes, also when the link is dead and has to be removed.
ReleaseCompletes ==
  \A t \in 1..NumCallers :
    (pc[t] = "returning") ~> (pc[t] = "idle")
\* C16 (reuse), as stated: with max_connections = 1, after get_connection,
\* return_connection and a second get_connection, with no expiry and no
\* dead socket, the caller holds the first link again and one link was
\* created.
ReuseDone(t) == pc[t] = "idle" /\ ncalls[t] = Len(ReuseScript)
ReuseReturnsSame ==
  \A t \in Callers :
    ReuseDone(t) => (held[t] = 1 /\ created = 1)

\* C16 (reuse), amended: the second get_connection returns the first link
\* or None, never another link, and one link is created; it returns None
\* only when its time budget is used up (timeout - (now - start_time) <= 0).
ReuseOrExhausted ==
  /\ [](/\ created <= 1
         /\ \A t \in Callers :
              ReuseDone(t) => (held[t] = 1 \/ (held[t] = NoLink /\ ret[t] = "None")))
  /\ [][\A t \in Callers :
          (/\ ncalls[t] = Len(ReuseScript)
           /\ pc[t] # "idle"
           /\ pc'[t] = "idle"
           /\ ret'[t] = "None") =>
             timeout[t] - (now - start_time[t]) <= 0]_vars

\* the second get_connection came back with the first link, from the
\* blocking get after the cleanup thread had put it back
ReuseWitness ==
  \E t \in Callers :
    /\ ReuseDone(t)
    /\ held[t] = 1
    /\ via[t] = "waited"
    /\ created = 1
\* C17 (destruction removes the link from the registry): when
\* _remove_connection completes for a link, the link is no longer stored in
\* all_connections and len(all_connections) has dropped by one.
RemoveUnregisters ==
  [][\A th \in Threads :
       Remove(th) =>
         /\ cur[th] \notin Members(all_connections')
         /\ Cardinality(all_connections') = Cardinality(all_connections) - 1]_vars
\* C18 (connect failure is soft): when the connect fails in the creation
\* path, all_connections and borrowed_connections stay as they were, no
\* link is counted, all_connections_lock is released, and the call enters
\* the blocking get if time budget is left (it returns None if none is).
ConnectFailed(t) ==
  /\ pc[t] = "connect"
  /\ pc'[t] # "connect"
  /\ created' = created
ConnectFailureIsSoft ==
  [][\A t \in Callers :
       ConnectFailed(t) =>
         /\ UNCHANGED <<all_connections, borrowed_connections, available_connections>>
         /\ all_connections_lock = t
         /\ all_connections_lock' = NoOwner
         /\ held'[t] = NoLink
         /\ IF timeout[t] - (now - start_time[t]) > 0
              THEN pc'[t] = "block"
              ELSE pc'[t] = "idle" /\ ret'[t] = "None"]_vars

\* a caller holds a link that it took from the blocking get while
\* all_connections has room: its connect had failed, and another caller
\* released the link before the deadline
ConnectFailureWitness ==
  \E t \in Callers :
    /\ held[t] # NoLink
    /\ via[t] = "waited"
    /\ HasCapacity
    /\ held[t] \in released
\* C19 (reaper frame): the cleanup thread pops a link only while pops are
\* left of the qsize() it read at the start of the cycle; none of its steps
\* changes borrowed_connections or the socket, last_used or in_use of a
\* borrowed link; a popped link within its TTL goes back to the idle queue
\* and an expired one is kept aside; the links kept aside and the link being
\* removed are expired, not borrowed and held by no caller, and only such a
\* link is closed.
ReaperStep ==
  \/ pc[ReaperT] # pc'[ReaperT]
  \/ cur[ReaperT] # cur'[ReaperT]
  \/ queue_size # queue_size'
  \/ expired_connections # expired_connections'
ReaperFrame ==
  /\ [][ReaperStep =>
          /\ borrowed_connections' = borrowed_connections
          /\ \A c \in Members(borrowed_connections) :
               /\ sock_closed'[c] = sock_closed[c]
               /\ last_used'[c] = last_used[c]
               /\ in_use'[c] = in_use[c]
          /\ (pc[ReaperT] = "scan" /\ pc'[ReaperT] = "scan_check") =>
               /\ queue_size > 0
               /\ queue_size' = queue_size - 1
               /\ cur'[ReaperT] = Head(available_connections)
          /\ pc[ReaperT] = "scan_check" =>
               IF now - last_used[cur[ReaperT]] > connection_ttl
                 THEN /\ expired_connections' = Append(expired_connections, cur[ReaperT])
                      /\ available_connections' = available_connections
                 ELSE /\ available_connections' = Append(available_connections, cur[ReaperT])
                      /\ expired_connections' = expired_connections
                      /\ sock_closed'[cur[ReaperT]] = sock_closed[cur[ReaperT]]
          /\ \A c \in Links :
               (sock_closed'[c] /\ ~sock_closed[c]) =>
                 /\ c = Head(expired_connections)
                 /\ now - last_used[c] > connection_ttl]_vars
  /\ [](\A c \in RangeOf(expired_connections)
                \cup (IF pc[ReaperT] = "remove" THEN {cur[ReaperT]} ELSE {}) :
          /\ now - last_used[c] > connection_ttl
          /\ c \notin Members(borrowed_connections)
          /\ c \notin QueueMembers
          /\ \A t \in Callers : held[t] # c /\ cur[t] # c)
  /\ [](pc[ReaperT] \in {"sleep", "exit"} =>
          (queue_size = 0 /\ expired_connections = <<>> /\ cur[ReaperT] = NoLink))

\* the cleanup thread has finished the scan of a cycle with two idle links:
\* it kept an expired link aside and a link within its TTL is in the queue
ReaperFrameWitness ==
  /\ pc[ReaperT] = "purge"
  /\ expired_connections # <<>>
  /\ \E c \in QueueMembers : c \in released /\ now - last_used[c] <= connection_ttl
\* C20 (ttl = 0): with connection_ttl = 0 a caller never holds a link that
\* came out of the idle queue: every link a get_connection returns was
\* created by that call.
TtlZeroNeverReuses ==
  connection_ttl = 0 =>
    \A t \in Callers :
      held[t] # NoLink => (via[t] = "created" /\ held[t] \notin released)
====
